---- MODULE Spec2Model ----
(***************************************************************************)
(* A model of equipy.py: card sets (Cards), two-card hands (Hand) and the  *)
(* hand-and-board aggregate (HBoard) with its best-hand resolver.          *)
(*                                                                         *)
(* A card, 'Kh' in the source, is the two-character sequence <<"K","h">>:  *)
(* card[1] is the source's card[0] (the value) and card[2] its card[1]     *)
(* (the suit).  A card string is a sequence of one-character strings.      *)
(*                                                                         *)
(* Python leaves the iteration order of a set of strings (and so of a dict *)
(* filled from one) to the hash seed, and numpy.random.choice draws at     *)
(* random: a function that iterates a set or draws returns, here, the SET  *)
(* of the values it can return.  A detector's empty set is its "False".    *)
(***************************************************************************)
EXTENDS Integers, Sequences, FiniteSets, TLC

VARIABLES
    pc,     \* "start", "done" (constructed), "raised", "printed"
    cls,    \* the constructor that ran: "", "Cards", "Hand", "HBoard"
    args,   \* the constructor's arguments: [hand, flop, turn, river]
    self,   \* the object under construction, with the attributes set so far
    err,    \* the message of the ValueError raised, "" when none
    out     \* what Cards.__str__ returned

vars == <<pc, cls, args, self, err, out>>

----------------------------------------------------------------------------
(* Bounds of the model *)

\* length of the longest card string drawn as an input
MaxStrLen == 6
\* size of the largest set of cards drawn as an input of Cards and Hand
MaxSetLen == 3
\* the cards a board is dealt from: the first NBoard cards of DealOrder
NBoard == 6
\* the cards a hand is dealt from: the first NDeck cards of DealOrder
NDeck == 12

----------------------------------------------------------------------------
(* Arguments: a str or a set (isinstance(x, str) tells them apart) *)

StrArg(s) == [isstr |-> TRUE, str |-> s, set |-> {}]
SetArg(S) == [isstr |-> FALSE, str |-> <<>>, set |-> S]
\* Python's truth value of a str or a set: non-empty
Truthy(a) == IF a.isstr THEN a.str # <<>> ELSE a.set # {}

\* the subsets of S with exactly n elements
kSubsets(S, n) == {T \in SUBSET S : Cardinality(T) = n}

----------------------------------------------------------------------------
(* _gen_deck *)

deck_values == {"2", "3", "4", "5", "6", "7", "8", "9"} \cup {"A", "T", "J", "Q", "K"}
deck_suits == {"s", "h", "d", "c"}
_gen_deck == {<<value, suit>> : value \in deck_values, suit \in deck_suits}

\* _str_to_set with its loop started at the second slice
_str_to_set_from_1(cards_str) ==
    IF Len(cards_str) % 2 # 0
    THEN [raised |-> "Invalid Cards String", val |-> {}]
    ELSE LET n == Len(cards_str) \div 2
             slice(i) == SubSeq(cards_str, 2 * i + 1, 2 * i + 2)
         IN  IF \E i \in 0 .. n - 1 : slice(i) \notin _gen_deck
             THEN [raised |-> "Invalid Cards String", val |-> {}]
             ELSE [raised |-> "", val |-> {slice(i) : i \in 1 .. n - 1}]

(* _str_to_set: the ValueError raised ("" when none) and the set returned *)
_str_to_set(cards_str) ==
    IF Len(cards_str) % 2 # 0
    THEN [raised |-> "Invalid Cards String", val |-> {}]
    ELSE LET n == Len(cards_str) \div 2
             slice(i) == SubSeq(cards_str, 2 * i + 1, 2 * i + 2)
         IN  IF \E i \in 0 .. n - 1 : slice(i) \notin _gen_deck
             THEN [raised |-> "Invalid Cards String", val |-> {}]
             ELSE [raised |-> "", val |-> {slice(i) : i \in 0 .. n - 1}]

(* _valid_set: the ValueError raised, "" when it returns True *)
_valid_set(cards_set) ==
    IF \E card \in cards_set : card \notin _gen_deck
    THEN "Invalid Cards Set"
    ELSE ""

(* _gen_values: value -> set of suits, keyed by the values present *)
_gen_values(cards) ==
    [value \in {card[1] : card \in cards} |->
        {card[2] : card \in {c \in cards : c[1] = value}}]

(* _gen_suits: suit -> set of values, keyed by the suits present *)
_gen_suits(cards) ==
    [suit \in {card[2] : card \in cards} |->
        {card[1] : card \in {c \in cards : c[2] = suit}}]

\* dict.get(key, set())
Get(dict, key) == IF key \in DOMAIN dict THEN dict[key] ELSE {}

----------------------------------------------------------------------------
(* The object: attrs names the attributes assigned so far *)

NewObject ==
    [attrs |-> {}, cards |-> {}, values |-> <<>>, suits |-> <<>>,
     hand |-> {}, pair |-> FALSE, suited |-> FALSE, connected |-> FALSE,
     flop |-> {}, turn |-> SetArg({}), river |-> SetArg({}), board |-> {},
     pstraight |-> <<>>, pflush |-> <<>>,
     best_hand |-> {}, best_hand_type |-> ""]

(* Cards.__init__ *)
Cards__init__(obj, cards) ==
    LET conv == IF cards.isstr THEN _str_to_set(cards.str)
                ELSE [raised |-> "", val |-> cards.set]
    IN  IF conv.raised # "" THEN [raised |-> conv.raised, self |-> obj]
        ELSE IF _valid_set(conv.val) # ""
        THEN [raised |-> _valid_set(conv.val), self |-> obj]
        ELSE [raised |-> "",
              self |-> [obj EXCEPT !.attrs = @ \cup {"cards", "values", "suits"},
                                   !.cards = conv.val,
                                   !.values = _gen_values(conv.val),
                                   !.suits = _gen_suits(conv.val)]]

\* the orders in which a set can be iterated
Orders(S) ==
    {f \in [1 .. Cardinality(S) -> S] : \A i, j \in DOMAIN f : i # j => f[i] # f[j]}

RECURSIVE Concat(_)
\* ''.join of a sequence of strings
Concat(strs) == IF strs = <<>> THEN <<>> ELSE Head(strs) \o Concat(Tail(strs))

(* Cards.__str__: the strings it can return *)
Cards__str__(obj) == {Concat(order) : order \in Orders(obj.cards)}

----------------------------------------------------------------------------
(* Hand *)

_pair(values) == Cardinality(DOMAIN values) = 1
_suited(suits) == Cardinality(DOMAIN suits) = 1

connected_values ==
    <<"A">> \o <<"2", "3", "4", "5", "6", "7", "8", "9">> \o <<"T", "J", "Q", "K", "A">>

\* _connected with 12 windows for 13: K-A is left out
_connected_12(cards) ==
    LET connectors == {{connected_values[i + 1], connected_values[i + 2]} : i \in 0 .. 11}
    IN  {card[1] : card \in cards} \in connectors

(* Hand._connected *)
_connected(cards) ==
    LET connectors == {{connected_values[i + 1], connected_values[i + 2]} : i \in 0 .. 12}
    IN  {card[1] : card \in cards} \in connectors

\* the attributes Hand.__init__ derives once Cards.__init__ has returned
HandAttributes(obj) ==
    [obj EXCEPT !.attrs = @ \cup {"hand", "pair", "suited", "connected"},
                !.hand = obj.cards,
                !.pair = _pair(obj.values),
                !.suited = _suited(obj.suits),
                !.connected = _connected(obj.cards)]

\* Hand.__init__ with len(hand) > 2 for len(hand) != 2
Hand__init___over_2(obj, hand) ==
    LET conv == IF hand.isstr THEN _str_to_set(hand.str)
                ELSE [raised |-> "", val |-> hand.set]
    IN  IF conv.raised # "" THEN [raised |-> conv.raised, self |-> obj]
        ELSE IF _valid_set(conv.val) # ""
        THEN [raised |-> _valid_set(conv.val), self |-> obj]
        ELSE IF Cardinality(conv.val) > 2
        THEN [raised |-> "Invalid Hand", self |-> obj]
        ELSE LET base == Cards__init__(obj, SetArg(conv.val))
             IN  [raised |-> "", self |-> HandAttributes(base.self)]

(* Hand.__init__ *)
Hand__init__(obj, hand) ==
    LET conv == IF hand.isstr THEN _str_to_set(hand.str)
                ELSE [raised |-> "", val |-> hand.set]
    IN  IF conv.raised # "" THEN [raised |-> conv.raised, self |-> obj]
        ELSE IF _valid_set(conv.val) # ""
        THEN [raised |-> _valid_set(conv.val), self |-> obj]
        ELSE IF Cardinality(conv.val) # 2
        THEN [raised |-> "Invalid Hand", self |-> obj]
        ELSE LET base == Cards__init__(obj, SetArg(conv.val))
             IN  [raised |-> "", self |-> HandAttributes(base.self)]

----------------------------------------------------------------------------
(* The best-hand resolver *)

all_values == <<"A", "K", "Q", "J", "T">> \o <<"9", "8", "7", "6", "5", "4", "3", "2">>

\* the elements of a list, as a set
Range(list) == {list[i] : i \in DOMAIN list}
\* the least index of a non-empty set of indices: the first hit of a loop
First(hits) == CHOOSE i \in hits : \A j \in hits : i <= j

RECURSIVE fill_from(_, _, _, _, _)
\* _fill_hand's loop from the k-th value of `order` on, with n cards still to add;
\* the suits of one value are iterated in any order
fill_from(order, values, dead_cards, n, k) ==
    IF k > Len(order) THEN {dead_cards}
    ELSE LET value == order[k]
             fresh == {<<value, suit>> : suit \in Get(values, value)} \ dead_cards
         IN  IF Cardinality(fresh) >= n
             THEN {dead_cards \cup added : added \in kSubsets(fresh, n)}
             ELSE fill_from(order, values, dead_cards \cup fresh,
                            n - Cardinality(fresh), k + 1)

\* _fill_hand with n == 0 tested before the card is added: one card too many
_fill_hand_late(values, dead_cards, n) == fill_from(all_values, values, dead_cards, n + 1, 1)

\* _fill_hand walking the values from the 2 up
_fill_hand_low(values, dead_cards, n) ==
    fill_from([i \in DOMAIN all_values |-> all_values[Len(all_values) + 1 - i]],
              values, dead_cards, n, 1)

(* _fill_hand: the sets it can return *)
_fill_hand(values, dead_cards, n) == fill_from(all_values, values, dead_cards, n, 1)

suit_names ==
    [suit \in deck_suits |->
        CASE suit = "s" -> <<"S", "p", "a", "d", "e", "s">>
          [] suit = "h" -> <<"H", "e", "a", "r", "t", "s">>
          [] suit = "d" -> <<"D", "i", "a", "m", "o", "n", "d", "s">>
          [] suit = "c" -> <<"C", "l", "u", "b", "s">>]

\* str.lower() of one character of a suit name
Lower(ch) ==
    CASE ch = "S" -> "s" [] ch = "H" -> "h" [] ch = "D" -> "d" [] ch = "C" -> "c"
      [] OTHER -> ch

(* _straight_flush *)
_straight_flush(HB) ==
    IF HB.pflush # <<>> /\ HB.pstraight # <<>>
    THEN LET psuit == Lower(HB.pflush[1])
             pvalues == all_values \o <<"A">>
             pcards == [i \in DOMAIN pvalues |-> <<pvalues[i], psuit>>]
             pstraights == [i \in 1 .. 10 |-> SubSeq(pcards, i, i + 4)]
             hits == {i \in 1 .. 10 : Range(pstraights[i]) \subseteq HB.cards}
         IN  IF hits # {} THEN {Range(pstraights[First(hits)])} ELSE {}
    ELSE {}

(* _quads: HB.values is iterated in any order *)
_quads(HB) ==
    UNION {_fill_hand(HB.values, {<<value, suit>> : suit \in deck_suits}, 1) :
           value \in {v \in DOMAIN HB.values : Cardinality(Get(HB.values, v)) = 4}}

(* _full_house: the pair's two suits are drawn at random *)
_full_house(HB) ==
    LET n == Len(all_values)
        hits == {i \in 1 .. n : /\ Cardinality(Get(HB.values, all_values[i])) = 3
                                /\ \E j \in 1 .. n :
                                     /\ Cardinality(Get(HB.values, all_values[j])) >= 2
                                     /\ all_values[j] # all_values[i]}
    IN  IF hits = {} THEN {}
        ELSE LET v1 == all_values[First(hits)]
                 v2 == all_values[First({j \in 1 .. n :
                                    /\ Cardinality(Get(HB.values, all_values[j])) >= 2
                                    /\ all_values[j] # v1})]
                 trips == {<<v1, suit>> : suit \in HB.values[v1]}
             IN  {trips \cup {<<v2, suit>> : suit \in drawn} :
                  drawn \in kSubsets(HB.values[v2], 2)}

RECURSIVE flush_from(_, _, _, _)
\* _flush's inner loop from the k-th value on
flush_from(held, suit, best_flush, k) ==
    IF k > Len(all_values) THEN best_flush
    ELSE LET added == IF all_values[k] \in held
                      THEN best_flush \cup {<<all_values[k], suit>>}
                      ELSE best_flush
         IN  IF Cardinality(added) = 5 THEN added
             ELSE flush_from(held, suit, added, k + 1)

(* _flush: HB.suits is iterated in any order *)
_flush(HB) ==
    {flush_from(HB.suits[suit], suit, {}, 1) :
     suit \in {s \in DOMAIN HB.suits : Cardinality(HB.suits[s]) >= 5}}

(* _straight: one suit is drawn at random for each value *)
_straight(HB) ==
    LET hits == {i \in DOMAIN HB.pstraight :
                    Range(HB.pstraight[i]) \subseteq DOMAIN HB.values}
    IN  IF hits = {} THEN {}
        ELSE LET straight_list == HB.pstraight[First(hits)]
                 draws == {d \in [Range(straight_list) -> deck_suits] :
                              \A value \in Range(straight_list) : d[value] \in HB.values[value]}
             IN  {{<<value, d[value]>> : value \in Range(straight_list)} : d \in draws}

(* _trips *)
_trips(HB) ==
    LET hits == {i \in DOMAIN all_values : Cardinality(Get(HB.values, all_values[i])) = 3}
    IN  IF hits = {} THEN {}
        ELSE LET value == all_values[First(hits)]
             IN  _fill_hand(HB.values, {<<value, suit>> : suit \in HB.values[value]}, 2)

(* _two_pair *)
_two_pair(HB) ==
    LET n == Len(all_values)
        hits == {i \in 1 .. n : /\ Cardinality(Get(HB.values, all_values[i])) = 2
                                /\ \E j \in 1 .. n :
                                     /\ Cardinality(Get(HB.values, all_values[j])) = 2
                                     /\ all_values[j] # all_values[i]}
    IN  IF hits = {} THEN {}
        ELSE LET v1 == all_values[First(hits)]
                 v2 == all_values[First({j \in 1 .. n :
                                    /\ Cardinality(Get(HB.values, all_values[j])) = 2
                                    /\ all_values[j] # v1})]
                 two_pair == {<<v1, suit>> : suit \in HB.values[v1]}
                             \cup {<<v2, suit>> : suit \in HB.values[v2]}
             IN  _fill_hand(HB.values, two_pair, 1)

(* _one_pair *)
_one_pair(HB) ==
    LET hits == {i \in DOMAIN all_values : Cardinality(Get(HB.values, all_values[i])) = 2}
    IN  IF hits = {} THEN {}
        ELSE LET value == all_values[First(hits)]
             IN  _fill_hand(HB.values, {<<value, suit>> : suit \in HB.values[value]}, 3)

\* the detector table with Pair entered before Two Pair
phands_pair_first(HB) ==
    << [hands |-> _straight_flush(HB), label |-> "Straight Flush"],
       [hands |-> _quads(HB), label |-> "Four of a Kind"],
       [hands |-> _full_house(HB), label |-> "Full House"],
       [hands |-> _flush(HB), label |-> "Flush"],
       [hands |-> _straight(HB), label |-> "Straight"],
       [hands |-> _trips(HB), label |-> "Three of a Kind"],
       [hands |-> _one_pair(HB), label |-> "Pair"],
       [hands |-> _two_pair(HB), label |-> "Two Pair"] >>

\* the detector table of _best_hand, in the order the dict is iterated
phands(HB) ==
    << [hands |-> _straight_flush(HB), label |-> "Straight Flush"],
       [hands |-> _quads(HB), label |-> "Four of a Kind"],
       [hands |-> _full_house(HB), label |-> "Full House"],
       [hands |-> _flush(HB), label |-> "Flush"],
       [hands |-> _straight(HB), label |-> "Straight"],
       [hands |-> _trips(HB), label |-> "Three of a Kind"],
       [hands |-> _two_pair(HB), label |-> "Two Pair"],
       [hands |-> _one_pair(HB), label |-> "Pair"] >>

(* _best_hand: the (best_hand, best_hand_type) pairs it can return.  The detector *)
(* that first returns a non-empty set is called a second time for the result.     *)
_best_hand(HB) ==
    LET table == phands(HB)
        hits == {i \in DOMAIN table : table[i].hands # {}}
    IN  IF hits # {}
        THEN {[hand |-> h, type |-> table[First(hits)].label] : h \in table[First(hits)].hands}
        ELSE {[hand |-> h, type |-> "none"] : h \in _fill_hand(HB.values, {}, 5)}

----------------------------------------------------------------------------
(* HBoard *)

\* _pstraight with 9 windows for 10: 5432A is left out
_pstraight_9(board) ==
    LET straight_values == all_values \o <<"A">>
        all_straights == [i \in 1 .. 9 |-> SubSeq(straight_values, i, i + 4)]
        values_set == DOMAIN _gen_values(board)
    IN  SelectSeq(all_straights,
                  LAMBDA straight : Cardinality(values_set \cap Range(straight)) >= 3)

\* _pstraight asking for 4 values of a window on the board
_pstraight_4(board) ==
    LET straight_values == all_values \o <<"A">>
        all_straights == [i \in 1 .. 10 |-> SubSeq(straight_values, i, i + 4)]
        values_set == DOMAIN _gen_values(board)
    IN  SelectSeq(all_straights,
                  LAMBDA straight : Cardinality(values_set \cap Range(straight)) >= 4)

(* HBoard._pstraight *)
_pstraight(board) ==
    LET straight_values == all_values \o <<"A">>
        all_straights == [i \in 1 .. 10 |-> SubSeq(straight_values, i, i + 4)]
        values_set == DOMAIN _gen_values(board)
    IN  SelectSeq(all_straights,
                  LAMBDA straight : Cardinality(values_set \cap Range(straight)) >= 3)

\* _pflush asking for 4 board cards of a suit
_pflush_4(board) ==
    LET suits == _gen_suits(board)
        hits == {suit \in DOMAIN suits : Cardinality(suits[suit]) >= 4}
    IN  IF hits = {} THEN {<<>>} ELSE {suit_names[suit] : suit \in hits}

(* HBoard._pflush: the names it can return, <<>> for False; the suits of the *)
(* board are iterated in any order                                            *)
_pflush(board) ==
    LET suits == _gen_suits(board)
        hits == {suit \in DOMAIN suits : Cardinality(suits[suit]) >= 3}
    IN  IF hits = {} THEN {<<>>} ELSE {suit_names[suit] : suit \in hits}

\* a str argument converted by _str_to_set, a set argument as it is
Converted(arg) ==
    IF arg.isstr THEN _str_to_set(arg.str) ELSE [raised |-> "", val |-> arg.set]

\* the end of HBoard.__init__, from Cards.__init__(self, cards) on
HBoardFinish(obj, cards, flop, turn, river, board) ==
    LET base == Cards__init__(obj, SetArg(cards)).self
        hinted(pflush) ==
            [base EXCEPT !.attrs = @ \cup {"flop", "turn", "river", "board",
                                           "pstraight", "pflush"},
                         !.flop = flop, !.turn = turn, !.river = river,
                         !.board = board,
                         !.pstraight = _pstraight(board),
                         !.pflush = pflush]
    IN  {[raised |-> "",
          self |-> [hinted(pflush) EXCEPT !.attrs = @ \cup {"best_hand", "best_hand_type"},
                                          !.best_hand = best.hand,
                                          !.best_hand_type = best.type]] :
         <<pflush, best>> \in
            UNION {{<<p, b>> : b \in _best_hand(hinted(p))} : p \in _pflush(board)}}

(* HBoard.__init__: the outcomes it can have, each the ValueError raised ("" when *)
(* none) and the object as far as it was built                                     *)
HBoard__init__(obj, hand_arg, flop_arg, turn, river) ==
    LET hand == Converted(hand_arg)
        flop == Converted(flop_arg)
        failed(msg, o) == {[raised |-> msg, self |-> o]}
    IN  IF hand.raised # "" THEN failed(hand.raised, obj)
        ELSE IF flop.raised # "" THEN failed(flop.raised, obj)
        ELSE IF _valid_set(hand.val \cup flop.val) # ""
        THEN failed(_valid_set(hand.val \cup flop.val), obj)
        ELSE LET inner == Hand__init__(obj, SetArg(hand.val))
                 cards == hand.val \cup flop.val
             IN  IF inner.raised # "" THEN failed(inner.raised, inner.self)
                 ELSE IF ~Truthy(turn)
                 THEN HBoardFinish(inner.self, cards, flop.val, turn, river, flop.val)
                 ELSE LET t == Converted(turn)
                      IN  IF t.raised # "" THEN failed(t.raised, inner.self)
                          ELSE IF _valid_set(t.val) # ""
                          THEN failed(_valid_set(t.val), inner.self)
                          ELSE IF ~Truthy(river)
                          THEN HBoardFinish(inner.self, cards \cup t.val, flop.val,
                                            SetArg(t.val), river, flop.val \cup t.val)
                          ELSE LET r == Converted(river)
                               IN  IF r.raised # "" THEN failed(r.raised, inner.self)
                                   ELSE IF _valid_set(r.val) # ""
                                   THEN failed(_valid_set(r.val), inner.self)
                                   ELSE HBoardFinish(inner.self,
                                                     cards \cup t.val \cup r.val,
                                                     flop.val, SetArg(t.val), SetArg(r.val),
                                                     flop.val \cup t.val \cup r.val)

----------------------------------------------------------------------------
(* Inputs *)

\* the characters of the card strings drawn
StrAlphabet == {"K", "A", "h", "d", "x"}
StrInputs == UNION {[1 .. n -> StrAlphabet] : n \in 0 .. MaxStrLen}

\* the cards of the sets drawn; the last two are no cards of the deck
SetPool == {<<"K", "h">>, <<"K", "d">>, <<"A", "s">>, <<"2", "c">>,
            <<"1", "s">>, <<"K", "x">>}
SetInputs ==
    {S \in SUBSET SetPool : Cardinality(S) <= MaxSetLen}
    \cup {{c1, c2} : c1 \in _gen_deck, c2 \in _gen_deck}

NoArg == SetArg({})

\* the order the bounded deals take their cards in
DealOrder ==
    << <<"A", "s">>, <<"2", "s">>, <<"3", "s">>, <<"4", "s">>, <<"A", "h">>,
       <<"2", "h">>, <<"5", "s">>, <<"6", "s">>, <<"A", "d">>, <<"A", "c">>,
       <<"2", "d">>, <<"3", "h">>, <<"K", "d">>, <<"6", "h">> >>
BoardPool == {DealOrder[i] : i \in 1 .. NBoard}
HandPool == {DealOrder[i] : i \in 1 .. NDeck}

\* the example of HBoard's docstring, as sets and as strings
DocDeal ==
    [hand |-> SetArg({<<"T", "d">>, <<"K", "h">>}),
     flop |-> SetArg({<<"5", "h">>, <<"9", "c">>, <<"7", "d">>}),
     turn |-> SetArg({<<"J", "s">>}),
     river |-> SetArg({<<"Q", "h">>})]
DocDealStr ==
    [hand |-> StrArg(<<"T", "d", "K", "h">>),
     flop |-> StrArg(<<"5", "h", "9", "c", "7", "d">>),
     turn |-> StrArg(<<"J", "s">>),
     river |-> StrArg(<<"Q", "h">>)]

\* deals outside the bounded pools: the high end of the ranks, and arguments
\* that make HBoard.__init__ raise
ExtraDeals ==
    {DocDeal, DocDealStr,
     [DocDeal EXCEPT !.hand = SetArg({<<"A", "h">>, <<"K", "d">>}),
                     !.flop = SetArg({<<"Q", "s">>, <<"J", "c">>, <<"T", "h">>})],
     [DocDeal EXCEPT !.hand = SetArg({<<"9", "h">>, <<"9", "d">>}),
                     !.flop = SetArg({<<"9", "s">>, <<"9", "c">>, <<"K", "d">>})],
     [DocDeal EXCEPT !.hand = SetArg({<<"T", "d">>, <<"K", "h">>, <<"2", "c">>})],
     [DocDeal EXCEPT !.hand = StrArg(<<"T", "d", "K">>)],
     [DocDeal EXCEPT !.flop = StrArg(<<"5", "h", "9", "x">>)],
     [DocDeal EXCEPT !.flop = SetArg({<<"5", "h">>, <<"1", "c">>, <<"7", "d">>})],
     [DocDeal EXCEPT !.turn = StrArg(<<"J">>)],
     [DocDeal EXCEPT !.turn = SetArg({<<"J", "x">>})],
     [DocDeal EXCEPT !.river = StrArg(<<"Q", "h", "Q">>)],
     [DocDeal EXCEPT !.river = SetArg({<<"Q", "x">>})]}

\* a two-card hand, no flop or a three-card flop, no turn or a one-card turn, no
\* river or a one-card river, of distinct cards
BoundedDeal(a) ==
    \E hand \in kSubsets(HandPool, 2) :
    \E flop \in {{}} \cup kSubsets(BoardPool \ hand, 3) :
    \E turn \in {{}} \cup {{c} : c \in BoardPool \ (hand \cup flop)} :
    \E river \in {{}} \cup {{c} : c \in BoardPool \ (hand \cup flop \cup turn)} :
        a = [hand |-> SetArg(hand), flop |-> SetArg(flop),
             turn |-> SetArg(turn), river |-> SetArg(river)]

----------------------------------------------------------------------------
(* The state machine *)

Start ==
    /\ pc = "start"
    /\ cls = ""
    /\ self = NewObject
    /\ err = ""
    /\ out = <<>>

\* HBoard(hand, flop, turn, river) is about to be called
Init ==
    /\ Start
    /\ \/ BoundedDeal(args)
       \/ args \in ExtraDeals

\* Cards(cards) or Hand(hand) is about to be called
InitCards ==
    /\ Start
    /\ \E a \in {StrArg(s) : s \in StrInputs} \cup {SetArg(S) : S \in SetInputs} :
          args = [hand |-> a, flop |-> NoArg, turn |-> NoArg, river |-> NoArg]

Returned(class, result) ==
    /\ cls' = class
    /\ self' = result.self
    /\ err' = result.raised
    /\ pc' = IF result.raised = "" THEN "done" ELSE "raised"
    /\ UNCHANGED <<args, out>>

CallCards ==
    /\ pc = "start"
    /\ Returned("Cards", Cards__init__(NewObject, args.hand))

CallHand ==
    /\ pc = "start"
    /\ Returned("Hand", Hand__init__(NewObject, args.hand))

CallHBoard ==
    /\ pc = "start"
    /\ \E result \in HBoard__init__(NewObject, args.hand, args.flop, args.turn, args.river) :
          Returned("HBoard", result)

\* str(C) of a Cards object
CallStr ==
    /\ pc = "done"
    /\ cls = "Cards"
    /\ \E s \in Cards__str__(self) : out' = s
    /\ pc' = "printed"
    /\ UNCHANGED <<cls, args, self, err>>

Next == CallHBoard
NextCards == CallCards \/ CallHand \/ CallStr

Spec == Init /\ [][Next]_vars
SpecCards == InitCards /\ [][NextCards]_vars

----------------------------------------------------------------------------
(* Vocabulary of the properties, stated from the rules of the game and not *)
(* from the code: ranks are numbers, the ace 14 and, below a straight, 1.  *)

RankOrder == <<"2", "3", "4", "5", "6", "7", "8", "9", "T", "J", "Q", "K", "A">>
\* 2 for "2" up to 14 for "A"
RankOf(value) == 1 + CHOOSE i \in DOMAIN RankOrder : RankOrder[i] = value
\* the value of rank r, the ace being rank 1 as well as 14
ValueOfRank(r) == IF r = 1 THEN "A" ELSE RankOrder[r - 1]
\* the rank window whose top rank is top (5 .. 14), highest value first
WindowSeq(top) == [i \in 1 .. 5 |-> ValueOfRank(top + 1 - i)]
WindowValues(top) == {ValueOfRank(r) : r \in top - 4 .. top}
Tops == 5 .. 14
Deck52 == {<<RankOrder[i], suit>> : i \in DOMAIN RankOrder, suit \in {"s", "h", "d", "c"}}

ValuesOf(cards) == {card[1] : card \in cards}
\* the cards of one value, of one suit, among cards
ValueGroup(cards, value) == {card \in cards : card[1] = value}
SuitGroup(cards, suit) == {card \in cards : card[2] = suit}
Min(a, b) == IF a <= b THEN a ELSE b

\* HBoard(...) has returned an aggregate
Built == pc = "done" /\ cls = "HBoard"
\* the tops of the rank windows whose five values all occur among cards
CompleteTops(cards) == {top \in Tops : WindowValues(top) \subseteq ValuesOf(cards)}
\* best holds the up-to-n highest cards of pool that are not in kept
Highest(best, kept, pool, n) ==
    /\ kept \subseteq best
    /\ best \subseteq pool
    /\ Cardinality(best \ kept) = Min(n, Cardinality(pool \ kept))
    /\ \A kicker \in best \ kept : \A card \in pool \ best :
          RankOf(kicker[1]) >= RankOf(card[1])

----------------------------------------------------------------------------
(* C1: the best hand of every aggregate is a subset of its full card set, has  *)
(* at most 5 cards, and has fewer than 5 only when the full card set has fewer *)
(* than 5.                                                                     *)
C1_BestHandWithinCards ==
    Built =>
        /\ self.best_hand \subseteq self.cards
        /\ Cardinality(self.best_hand) <= 5
        /\ (Cardinality(self.best_hand) < 5 => Cardinality(self.cards) < 5)

\* a seven-card aggregate resolved to five cards, one of them a kicker
C1_Witness ==
    /\ Built
    /\ Cardinality(self.cards) = 7
    /\ Cardinality(self.best_hand) = 5
    /\ self.best_hand_type = "Two Pair"

(* C2: whenever five cards of one suit whose values fill a rank window (ace    *)
(* high or low) are in the full card set, the resolver returns "Straight       *)
(* Flush", with such five cards, and no lower category.                        *)
IsStraightFlush(hand) ==
    \E suit \in {"s", "h", "d", "c"} : \E top \in Tops :
        hand = {<<value, suit>> : value \in WindowValues(top)}
StraightFlushIn(cards) == \E hand \in kSubsets(cards, 5) : IsStraightFlush(hand)

C2_StraightFlushWins ==
    (Built /\ StraightFlushIn(self.cards)) =>
        /\ self.best_hand_type = "Straight Flush"
        /\ IsStraightFlush(self.best_hand)
        /\ self.best_hand \subseteq self.cards

\* a straight flush made of both hole cards and three board cards of a
\* seven-card aggregate
C2_Witness ==
    /\ Built
    /\ StraightFlushIn(self.cards)
    /\ Cardinality(self.cards) = 7
    /\ self.hand \subseteq self.best_hand
    /\ self.best_hand_type = "Straight Flush"

(* C3 as claimed: for every card string Cards accepts, the rendering holds the *)
(* same multiset of two-character tokens as the string.                        *)
Tokens(str) == [i \in 1 .. Len(str) \div 2 |-> SubSeq(str, 2 * i - 1, 2 * i)]
Count(list, x) == Cardinality({i \in DOMAIN list : list[i] = x})
Rendered == pc = "printed" /\ cls = "Cards" /\ args.hand.isstr

C3_RoundTripMultiset ==
    Rendered =>
        /\ Len(out) % 2 = 0
        /\ \A token \in Range(Tokens(out)) \cup Range(Tokens(args.hand.str)) :
              Count(Tokens(out), token) = Count(Tokens(args.hand.str), token)

(* C3 as amended: for every card string Cards accepts, the rendering holds the *)
(* same SET of tokens as the string, each exactly once; so it holds the same   *)
(* multiset exactly when no token is repeated in the string.                   *)
C3_RoundTripSet ==
    Rendered =>
        /\ Len(out) % 2 = 0
        /\ Range(Tokens(out)) = Range(Tokens(args.hand.str))
        /\ \A token \in Range(Tokens(out)) : Count(Tokens(out), token) = 1

\* a string of three tokens, two of them distinct, parsed and rendered
C3_Witness ==
    /\ Rendered
    /\ Len(args.hand.str) = 6
    /\ Cardinality(Range(Tokens(args.hand.str))) = 2
    /\ Len(out) = 4

(* C4: the board and the full card set contain the turn card only when a       *)
(* non-empty flop was given, and the river card only when a non-empty turn was *)
(* given.                                                                      *)
C4_TurnNeedsFlop ==
    Built =>
        /\ ~Truthy(args.flop) =>
              Converted(args.turn).val \cap (self.board \cup self.cards) = {}
        /\ ~Truthy(args.turn) =>
              Converted(args.river).val \cap (self.board \cup self.cards) = {}

(* C5: Hand(input) raises 'Invalid Hand' whenever the input denotes deck cards *)
(* whose number is not 2; an input that is malformed or names a card outside   *)
(* the deck raises the validation error instead ('Invalid Cards String' for a  *)
(* string, 'Invalid Cards Set' for a set); and a construction that raised has  *)
(* derived no pair, suited or connected attribute.                             *)
Malformed(str) ==
    \/ Len(str) % 2 # 0
    \/ \E token \in Range(Tokens(str)) : token \notin Deck52
HandCalled == cls = "Hand" /\ pc # "start"

C5_HandErrors ==
    HandCalled =>
        LET given == args.hand
            denoted == IF given.isstr THEN Range(Tokens(given.str)) ELSE given.set
            valid == IF given.isstr THEN ~Malformed(given.str)
                     ELSE given.set \subseteq Deck52
        IN  /\ (given.isstr /\ ~valid) => (pc = "raised" /\ err = "Invalid Cards String")
            /\ (~given.isstr /\ ~valid) => (pc = "raised" /\ err = "Invalid Cards Set")
            /\ (valid /\ Cardinality(denoted) # 2) =>
                  (pc = "raised" /\ err = "Invalid Hand")
            /\ pc = "raised" => self.attrs \cap {"pair", "suited", "connected"} = {}

\* a set of three deck cards refused as a hand
C5_Witness ==
    /\ HandCalled
    /\ ~args.hand.isstr
    /\ Cardinality(args.hand.set) = 3
    /\ args.hand.set \subseteq Deck52
    /\ err = "Invalid Hand"

(* C6: for every valid two-card hand, connected is true iff the two values are *)
(* neighbours in A,2,...,K,A: their ranks differ by one, or they are an ace    *)
(* and a 2.  A-2 and K-A are connected, a pair never is, and {Kh,Kd} gives     *)
(* pair=True, suited=False, connected=False.                                   *)
Neighbours(values) ==
    \E v \in values : \E w \in values :
        /\ values = {v, w}
        /\ \/ RankOf(v) - RankOf(w) = 1
           \/ (v = "A" /\ w = "2")
HandBuilt == cls = "Hand" /\ pc = "done"

C6_Connected ==
    HandBuilt =>
        /\ self.connected = Neighbours(ValuesOf(self.hand))
        /\ self.pair => ~self.connected
        /\ ValuesOf(self.hand) \in {{"A", "2"}, {"K", "A"}} => self.connected
        /\ self.hand = {<<"K", "h">>, <<"K", "d">>} =>
              (self.pair /\ ~self.suited /\ ~self.connected)

\* a king and an ace, given as a string, found connected
C6_Witness ==
    /\ HandBuilt
    /\ args.hand.isstr
    /\ ValuesOf(self.hand) = {"K", "A"}
    /\ self.connected

(* C7: the potential straights of every aggregate are exactly the rank windows *)
(* that hold at least 3 of the values of the board cards, each highest value   *)
(* first, from the ace-high window down to 5432A; the board 5h 7d 9c Js Qh     *)
(* gives KQJT9, QJT98, JT987, 98765.                                           *)
C7_PotentialStraights ==
    Built =>
        /\ self.pstraight =
              SelectSeq([k \in 1 .. 10 |-> WindowSeq(15 - k)],
                        LAMBDA w : Cardinality(Range(w) \cap ValuesOf(self.board)) >= 3)
        /\ self.board = {<<"5", "h">>, <<"7", "d">>, <<"9", "c">>, <<"J", "s">>, <<"Q", "h">>} =>
              self.pstraight = << <<"K", "Q", "J", "T", "9">>, <<"Q", "J", "T", "9", "8">>,
                                  <<"J", "T", "9", "8", "7">>, <<"9", "8", "7", "6", "5">> >>

\* a board whose values reach two windows, the lower one the ace-low window,
\* while the hole cards would reach a third
C7_Witness ==
    /\ Built
    /\ ValuesOf(self.board) = {"2", "3", "4"}
    /\ ValuesOf(self.hand) = {"5", "6"}
    /\ Len(self.pstraight) = 2

(* C8 as claimed: a hand returned as Four of a Kind, Three of a Kind, Two Pair *)
(* or Pair is the made combination (4, 3, 2+2 or 2 cards) plus exactly 1, 2, 1 *)
(* or 3 kickers, and no card left out of the hand outranks a kicker (ace high  *)
(* only).  It is stated for the aggregates whose turn, if any, came with a     *)
(* flop, so that its failure owes nothing to a turn dealt without one (C4).    *)
Kickers == [t \in {"Four of a Kind", "Three of a Kind", "Two Pair", "Pair"} |->
               CASE t = "Four of a Kind" -> 1
                 [] t = "Three of a Kind" -> 2
                 [] t = "Two Pair" -> 1
                 [] t = "Pair" -> 3]
\* the sets of cards that are a made combination of the category among cards
Combinations(type, cards) ==
    LET groups(n) == {ValueGroup(cards, v) : v \in {w \in ValuesOf(cards) :
                                                   Cardinality(ValueGroup(cards, w)) = n}}
    IN  CASE type = "Four of a Kind" -> groups(4)
          [] type = "Three of a Kind" -> groups(3)
          [] type = "Two Pair" -> {g \cup h : <<g, h>> \in {p \in groups(2) \X groups(2) :
                                                           p[1] # p[2]}}
          [] type = "Pair" -> groups(2)

C8_KickersExact ==
    (Built /\ self.best_hand_type \in DOMAIN Kickers
           /\ (Truthy(args.turn) => Truthy(args.flop))) =>
        \E made \in Combinations(self.best_hand_type, self.cards) :
            /\ Highest(self.best_hand, made, self.cards, Kickers[self.best_hand_type])
            /\ Cardinality(self.best_hand \ made) = Kickers[self.best_hand_type]

(* C8 as amended: such a hand is the made combination plus the highest cards   *)
(* left, 1, 2, 1 or 3 of them when the full card set has at least 5 cards and  *)
(* all of them when it has fewer; no card left out outranks a kicker; and four *)
(* of a kind is the four cards of the value plus the highest card left.        *)
C8_KickersHighest ==
    (Built /\ self.best_hand_type \in DOMAIN Kickers) =>
        \E made \in Combinations(self.best_hand_type, self.cards) :
            /\ Highest(self.best_hand, made, self.cards, Kickers[self.best_hand_type])
            /\ Cardinality(self.cards) >= 5 =>
                  Cardinality(self.best_hand \ made) = Kickers[self.best_hand_type]

\* two pairs kept out of three, with the kicker picked among three cards left
C8_Witness ==
    /\ Built
    /\ self.best_hand_type = "Two Pair"
    /\ Cardinality(self.cards) = 7
    /\ Cardinality({v \in ValuesOf(self.cards) :
                       Cardinality(ValueGroup(self.cards, v)) = 2}) = 3

(* C9: the resolver returns a result and the label of the first detector that  *)
(* matches in the order Straight Flush, Four of a Kind, Full House, Flush,     *)
(* Straight, Three of a Kind, Two Pair, Pair; it returns "none" exactly when   *)
(* no value is held in two suits, no suit has five cards and no rank window is *)
(* complete, and then the best hand is the 5 highest cards of the full card    *)
(* set (all of them when there are fewer than 5).  It raises nothing once the  *)
(* arguments are deck cards and the hand has two.                              *)
NoCategory(cards) ==
    /\ \A value \in ValuesOf(cards) : Cardinality(ValueGroup(cards, value)) < 2
    /\ \A suit \in {"s", "h", "d", "c"} : Cardinality(SuitGroup(cards, suit)) < 5
    /\ CompleteTops(cards) = {}

C10_HintSufficient ==
    (Built /\ Cardinality(self.board) \in 3 .. 5 /\ CompleteTops(self.cards) # {}) =>
        LET best_top == CHOOSE top \in CompleteTops(self.cards) :
                            \A other \in CompleteTops(self.cards) : other <= top
        IN  /\ \A top \in CompleteTops(self.cards) : WindowSeq(top) \in Range(self.pstraight)
            /\ self.best_hand_type \in
                  {"Straight Flush", "Four of a Kind", "Full House", "Flush", "Straight"}
            /\ self.best_hand_type = "Straight" =>
                  /\ ValuesOf(self.best_hand) = WindowValues(best_top)
                  /\ Cardinality(self.best_hand) = 5
                  /\ self.best_hand \subseteq self.cards

\* both hole cards complete the window, the 6-high one of the two filled
C10_Witness ==
    /\ Built
    /\ self.best_hand_type = "Straight"
    /\ CompleteTops(self.cards) = {5, 6}
    /\ ValuesOf(self.hand) \cap ValuesOf(self.board) = {}
    /\ ValuesOf(self.best_hand) = WindowValues(6)

====
